---- MODULE Spec2Model ----
(***************************************************************************)
(* wsl-systemd bridges: the two binaries of the repository.                *)
(*                                                                         *)
(*   pipette  (src/pipette/src/main.rs): reads the gpg-agent rendezvous    *)
(*            file (assuan::Assuan::new), connects to the loopback socket, *)
(*            sends the nonce and relays stdin/stdout over the socket with *)
(*            two threads (attach_to_tty: 'bob' socket -> stdout, 'fred'   *)
(*            stdin -> socket).                                            *)
(*   pageant  (src/pageant/src/main.rs): reads length-prefixed requests    *)
(*            from stdin and exchanges each with the Pageant window        *)
(*            through a named shared memory region (send_to_pageant).      *)
(*                                                                         *)
(* One behaviour is one run of one of the two binaries (variable prog).    *)
(* Bytes are integers 0..255, byte strings are sequences of them.          *)
(***************************************************************************)
EXTENDS Integers, Sequences, FiniteSets, TLC

VARIABLES
    prog,        \* which binary runs: "pipette" or "pageant"
    exited,      \* the process has ended
    exitCode,    \* its exit code (-1 while it runs)
    stdinBuf,    \* bytes the client has still to deliver on standard input
    stdinEof,    \* whether the client closes standard input after them
    stdout,      \* bytes written to standard output so far
    stderr,      \* lines written to standard error so far
    errBudget,   \* I/O failures the environment may still inject
    ioFailed,    \* history: a relay read or write has failed
    \* ---- pipette
    rvFile,      \* the rendezvous file: [exists, bytes]
    mainPc,      \* position of pipette's main thread
    newResult,   \* result of assuan::Assuan::new: "none", "Ok", "IO", ...
    port,        \* parsed port (-1 before)
    nonce,       \* nonce bytes read from the file
    connects,    \* TCP connection attempts made
    sockOut,     \* bytes written to the connection so far
    sockIn,      \* bytes sent by the backend and not yet read
    sockEof,     \* the backend has closed its sending side
    backMode,    \* backend behaviour: "echo" or "source"
    backData,    \* source backend: bytes it still has to send
    backCloses,  \* source backend: whether it closes after sending
    echoed,      \* echo backend: relayed bytes already echoed back
    terminated,  \* the relay's shared AtomicBool
    bobPc,       \* forward thread: "idle", "read", "handle", "broke", "panicked"
    bobRes,      \* forward thread: result of its last read
    bobRead,     \* history: bytes the forward thread has read from the socket
    fredPc,      \* reverse thread, as bobPc
    fredRes,     \* reverse thread: result of its last read
    fredRead,    \* history: bytes the reverse thread has read from stdin
    \* ---- pageant
    pgPc,        \* position of pageant's main: "read", "check", "create", ...
    req,         \* the request frame read from standard input
    agentWindow, \* whether a Pageant window exists
    sendResult,  \* result of send_to_pageant: "none", "Ok", or the Error variant
    rsp,         \* the response returned by send_to_pageant
    shm,         \* bytes stored in the region from offset 0 (zero after them)
    handle,      \* the file mapping handle: "none", "open", "closed"
    view,        \* the mapped view: "none", "mapped", "null", "unmapped"
    callLog,     \* history: the system events of the current exchange, in order
    loopLog      \* history: the steps of main's loop in order: [ev, data], ev
                 \* "read", "call", "ret" (data the response returned), "write"

commonVars ==
    <<prog, exited, exitCode, stdinBuf, stdinEof, stdout, stderr, errBudget, ioFailed>>
assuanVars == <<rvFile, mainPc, newResult, port, nonce, connects>>
sockVars == <<sockOut, sockIn, sockEof, backMode, backData, backCloses, echoed>>
relayVars == <<terminated, bobPc, bobRes, bobRead, fredPc, fredRes, fredRead>>
pipetteVars == <<assuanVars, sockVars, relayVars>>
pageantVars ==
    <<pgPc, req, agentWindow, sendResult, rsp, shm, handle, view, callLog, loopLog>>
vars == <<commonVars, pipetteVars, pageantVars>>

----------------------------------------------------------------------------
\* Bounds of the model.

\* Longest client input of a relay run.
MaxIn == 2
\* Most bytes a source backend sends.
MaxBack == 2
\* I/O failures injected per run.
MaxErrs == 1
\* Size of the relay's read buffer in the model (the program's is 128).
BufLen == 2

\* Most frames (whole or cut short) of a pageant run's input.
MaxFrames == 2

\* Size of the nonce array.
NonceLen == 16

\* Size of the shared memory region, and the limit of a request.
RegionSize == 8192

\* Size of the chunks a response is written in.
ChunkLen == 16


----------------------------------------------------------------------------
\* Byte strings.

Min(a, b) == IF a <= b THEN a ELSE b

Take(s, n) == SubSeq(s, 1, Min(n, Len(s)))

Drop(s, n) == SubSeq(s, Min(n, Len(s)) + 1, Len(s))

IsPrefix(p, s) == Len(p) <= Len(s) /\ SubSeq(s, 1, Len(p)) = p

SeqsUpTo(S, n) == UNION {[1..k -> S] : k \in 0..n}

Fill(n, b) == [i \in 1..n |-> b]

\* What a failing write_all of d may have written before it failed: a strict
\* prefix of d; of these, nothing, one byte, and all but the last byte.
PartialWrites(d) ==
    {Take(d, k) : k \in {0, 1, Len(d) - 1} \cap 0..(Len(d) - 1)}

----------------------------------------------------------------------------
\* assuan::Assuan::new, the parsing of the rendezvous file
\* (src/pipette/src/main.rs:105-127). Characters are their byte values:
\* '\n' = 10, '+' = 43, '-' = 45, '0'..'9' = 48..57.

\* str::trim strips White_Space; its ASCII members.
IsWhitespace(c) == c \in {9, 10, 11, 12, 13, 32}

\* Validity of the line as UTF-8, as BufRead::read_line checks it; one- and
\* two-byte forms (the files of RendezvousFiles hold no longer form).
RECURSIVE IsUtf8(_)
IsUtf8(s) ==
    IF s = <<>> THEN TRUE
    ELSE IF s[1] < 128 THEN IsUtf8(Tail(s))
    ELSE IF s[1] \in 194..223 /\ Len(s) >= 2 /\ s[2] \in 128..191
         THEN IsUtf8(Tail(Tail(s)))
    ELSE FALSE

\* BufRead::read_line: the bytes up to and including the first '\n', or all
\* of them when there is none.
RECURSIVE LineLen(_)
LineLen(s) ==
    IF s = <<>> THEN 0
    ELSE IF s[1] = 10 THEN 1
    ELSE 1 + LineLen(Tail(s))

RECURSIVE TrimStart(_)
TrimStart(s) ==
    IF s # <<>> /\ IsWhitespace(s[1]) THEN TrimStart(Tail(s)) ELSE s

RECURSIVE TrimEnd(_)
TrimEnd(s) ==
    IF s # <<>> /\ IsWhitespace(s[Len(s)])
    THEN TrimEnd(SubSeq(s, 1, Len(s) - 1))
    ELSE s

Trim(s) == TrimEnd(TrimStart(s))

RECURSIVE DigitsValue(_)
DigitsValue(s) ==
    IF s = <<>> THEN 0
    ELSE DigitsValue(SubSeq(s, 1, Len(s) - 1)) * 10 + (s[Len(s)] - 48)

\* <u16 as FromStr>::from_str: an optional '+', then one or more decimal
\* digits whose value fits 16 bits. [ok, val].
ParseU16(s) ==
    LET digits == IF s # <<>> /\ s[1] = 43 THEN Tail(s) ELSE s
    IN  IF digits = <<>> THEN [ok |-> FALSE, val |-> 0]
        ELSE IF \E i \in 1..Len(digits) : digits[i] \notin 48..57
             THEN [ok |-> FALSE, val |-> 0]
        ELSE IF DigitsValue(digits) > 65535 THEN [ok |-> FALSE, val |-> 0]
        ELSE [ok |-> TRUE, val |-> DigitsValue(digits)]

\* ReadNonce as it would be with the nonce read from the start of the file,
\* the port line not consumed first.
ReadNonceAtStart(f) == Take(f.bytes, NonceLen)

\* Lines 120-123: the port line and the bytes one read() of a 16-byte buffer
\* returns after it.
ReadNonce(f) == Take(Drop(f.bytes, LineLen(f.bytes)), NonceLen)

PortLine(f) == Take(f.bytes, LineLen(f.bytes))

\* Lines 108-127 as a function of the file: [kind, port, nonce], kind "Ok"
\* when the parse succeeded, else the Error variant returned.
AssuanParse(f) ==
    LET bad(k) == [kind |-> k, port |-> -1, nonce |-> <<>>]
    IN  IF ~f.exists THEN bad("IO")
        ELSE IF ~IsUtf8(PortLine(f)) THEN bad("IO")
        ELSE IF Len(ReadNonce(f)) # NonceLen THEN bad("NonceParse")
        ELSE IF ~ParseU16(Trim(PortLine(f))).ok THEN bad("PortParse")
        ELSE [kind |-> "Ok", port |-> ParseU16(Trim(PortLine(f))).val,
              nonce |-> ReadNonce(f)]

\* The rendezvous files of the model.
NonceZero == Fill(NonceLen, 0)

NonceIota == [i \in 1..NonceLen |-> i]

File(line, rest) == [exists |-> TRUE, bytes |-> line \o rest]

NoFile == [exists |-> FALSE, bytes |-> <<>>]

\* "12345\n" and "80\n" with a 16-byte nonce.
ValidFiles ==
    { File(<<49, 50, 51, 52, 53, 10>>, NonceZero),
      File(<<56, 48, 10>>, NonceIota) }

\* The file of the runs that vary the relay's inputs.
RelayFile == File(<<56, 48, 10>>, NonceIota)

RendezvousFiles ==
    ValidFiles \cup
    { NoFile,
      File(<<54, 53, 53, 51, 53, 10>>, NonceIota),          \* "65535\n"
      File(<<54, 53, 53, 51, 54, 10>>, NonceIota),          \* "65536\n"
      File(<<43, 56, 48, 10>>, NonceIota),                  \* "+80\n"
      File(<<32, 56, 48, 13, 10>>, NonceIota),              \* " 80\r\n"
      File(<<10>>, NonceZero),                              \* "\n"
      File(<<45, 49, 10>>, NonceZero),                      \* "-1\n"
      File(<<120, 49, 10>>, NonceZero),                     \* "x1\n"
      File(<<255, 10>>, NonceZero),                         \* not UTF-8
      File(<<255, 10>>, <<7, 7, 7>>),           \* not UTF-8, 3 nonce bytes
      File(<<195, 169, 10>>, NonceZero),                    \* "e-acute\n"
      File(<<56, 48, 10>>, Fill(NonceLen - 1, 7)),          \* 15 nonce bytes
      File(<<56, 48, 10>>, Fill(NonceLen + 1, 7)),          \* 17 bytes follow
      File(<<56, 48>>, <<>>),                               \* "80", no newline
      File(<<120, 10>>, <<7, 7, 7>>),                       \* bad port, short nonce
      File(<<>>, <<>>) }                                    \* empty file

----------------------------------------------------------------------------
\* The process and its streams.

\* The process ends with the given exit code: std::process::exit(code), main
\* returning (0), or the main thread panicking (101).
Exit(code) == exited' = TRUE /\ exitCode' = code

Running(p) == prog = p /\ ~exited

\* Eprintln as it would be with println! in place of eprintln!: each line
\* ends up on standard output (of a line only its line break is kept).
Println(out, msgs) ==
    /\ stdout' = out \o [i \in 1..Len(msgs) |-> 10]
    /\ stderr' = stderr

\* eprintln!: the lines msgs are written to standard error. out is what the
\* step itself leaves on standard output.
Eprintln(out, msgs) ==
    /\ stdout' = out
    /\ stderr' = stderr \o msgs

\* A panic: the panic hook writes its message to standard error, after the
\* lines the step has logged before it and before those of the destructors
\* that run while it unwinds.
PanicHook(out, before, after) ==
    /\ stdout' = out
    /\ stderr' = stderr \o before \o <<"panicked">> \o after

\* A socket exists: the connect succeeded and Assuan::new has not failed since.
Connected == connects > 0 /\ newResult \in {"none", "Ok"}

\* Bytes the relay has written to the connection: all after the handshake.
Relayed == Drop(sockOut, NonceLen)

NoRes == [kind |-> "none", data |-> <<>>]

OkRes(d) == [kind |-> "ok", data |-> d]

ErrRes == [kind |-> "err", data |-> <<>>]

\* BufSlice as it would be with the whole buffer written, &buf, instead of
\* the part the read filled.
BufWhole(data) == data \o Fill(BufLen - Len(data), 0)

\* Lines 58 and 75: &buf[..len], the part of the buffer the read filled.
BufSlice(data) == data

----------------------------------------------------------------------------
\* pipette: main and assuan::Assuan::new.

\* Lines 105-127: open and parse the rendezvous file.
AssuanNew ==
    /\ Running("pipette") /\ mainPc = "new"
    /\ LET r == AssuanParse(rvFile)
       IN  IF r.kind = "Ok"
           THEN /\ port' = r.port /\ nonce' = r.nonce
                /\ mainPc' = "connect" /\ newResult' = newResult
                /\ Eprintln(stdout, <<"Opening", "Discovered assuan socket">>)
           ELSE /\ newResult' = r.kind /\ mainPc' = "unwrap"
                /\ Eprintln(stdout, <<"Opening">>)
                /\ UNCHANGED <<port, nonce>>
    /\ UNCHANGED <<prog, exited, exitCode, stdinBuf, stdinEof, errBudget, ioFailed,
                   rvFile, connects, sockVars, relayVars>>
    /\ UNCHANGED pageantVars

\* Line 134: TcpStream::connect(("127.0.0.1", port))?; the agent listens
\* or it does not.
AssuanConnect ==
    /\ Running("pipette") /\ mainPc = "connect"
    /\ connects' = connects + 1
    /\ \E listening \in BOOLEAN :
          IF listening
          THEN mainPc' = "handshake" /\ newResult' = newResult
          ELSE mainPc' = "unwrap" /\ newResult' = "IO"
    /\ UNCHANGED <<commonVars, rvFile, port, nonce, sockVars, relayVars>>
    /\ UNCHANGED pageantVars

\* Lines 135-137: sock.write_all(&nonce[..])?; Ok(Self { sock }). A failing
\* write_all has written some strict prefix.
AssuanWriteNonce ==
    /\ Running("pipette") /\ mainPc = "handshake"
    /\ \/ /\ sockOut' = sockOut \o nonce
          /\ newResult' = "Ok"
          /\ errBudget' = errBudget
       \/ /\ errBudget > 0
          /\ errBudget' = errBudget - 1
          /\ \E w \in PartialWrites(nonce) : sockOut' = sockOut \o w
          /\ newResult' = "IO"
    /\ mainPc' = "unwrap"
    /\ UNCHANGED <<prog, exited, exitCode, stdinBuf, stdinEof, stdout, stderr,
                   ioFailed, rvFile, port, nonce, connects,
                   sockIn, sockEof, backMode, backData, backCloses, echoed,
                   relayVars>>
    /\ UNCHANGED pageantVars

\* Lines 26-29 and 43-79: .unwrap() of the result (a panic of the main thread
\* ends the process with 101), then attach_to_tty: split, the flag created
\* false, both threads spawned.
MainAttach ==
    /\ Running("pipette") /\ mainPc = "unwrap"
    /\ IF newResult = "Ok"
       THEN /\ terminated' = FALSE
            /\ bobPc' = "read" /\ fredPc' = "read"
            /\ mainPc' = "joinBob"
            /\ UNCHANGED <<exited, exitCode, stdout, stderr>>
       ELSE /\ Exit(101)
            /\ PanicHook(stdout, <<>>, <<>>)
            /\ UNCHANGED <<terminated, bobPc, fredPc, mainPc>>
    /\ UNCHANGED <<prog, stdinBuf, stdinEof, errBudget, ioFailed,
                   rvFile, newResult, port, nonce, connects, sockVars,
                   bobRes, bobRead, fredRes, fredRead>>
    /\ UNCHANGED pageantVars

\* Lines 80-82: bob.join().unwrap(); fred.join().unwrap(); return. join()
\* blocks until the thread has ended; unwrap() of a panicked thread panics.
MainJoin ==
    /\ Running("pipette")
    /\ IF mainPc = "joinBob"
       THEN /\ bobPc \in {"broke", "panicked"}
            /\ IF bobPc = "panicked"
               THEN Exit(101) /\ PanicHook(stdout, <<>>, <<>>) /\ mainPc' = mainPc
               ELSE /\ mainPc' = "joinFred"
                    /\ UNCHANGED <<exited, exitCode, stdout, stderr>>
       ELSE /\ mainPc = "joinFred"
            /\ fredPc \in {"broke", "panicked"}
            /\ Exit(IF fredPc = "panicked" THEN 101 ELSE 0)
            /\ IF fredPc = "panicked"
               THEN PanicHook(stdout, <<>>, <<>>)
               ELSE UNCHANGED <<stdout, stderr>>
            /\ mainPc' = mainPc
    /\ UNCHANGED <<prog, stdinBuf, stdinEof, errBudget, ioFailed,
                   rvFile, newResult, port, nonce, connects, sockVars, relayVars>>
    /\ UNCHANGED pageantVars

----------------------------------------------------------------------------
\* pipette: attach_to_tty, the forward thread 'bob' (socket -> stdout).

\* Lines 48-52: the flag is loaded, then one blocking read of at most BufLen
\* bytes: some of the bytes available, 0 bytes once the backend has closed
\* and nothing is left, or an error.
BobRead ==
    /\ Running("pipette") /\ bobPc = "read"
    /\ IF terminated
       THEN /\ bobPc' = "broke"
            /\ UNCHANGED <<bobRes, bobRead, sockIn, errBudget, ioFailed>>
       ELSE \/ \E k \in 1..Min(BufLen, Len(sockIn)) :
                 /\ bobRes' = OkRes(Take(sockIn, k))
                 /\ bobRead' = bobRead \o Take(sockIn, k)
                 /\ sockIn' = Drop(sockIn, k)
                 /\ bobPc' = "handle"
                 /\ UNCHANGED <<errBudget, ioFailed>>
            \/ /\ sockIn = <<>> /\ sockEof
               /\ bobRes' = OkRes(<<>>)
               /\ bobPc' = "handle"
               /\ UNCHANGED <<bobRead, sockIn, errBudget, ioFailed>>
            \/ /\ errBudget > 0
               /\ errBudget' = errBudget - 1
               /\ ioFailed' = TRUE
               /\ bobRes' = ErrRes
               /\ bobPc' = "handle"
               /\ UNCHANGED <<bobRead, sockIn>>
    /\ UNCHANGED <<prog, exited, exitCode, stdinBuf, stdinEof, stdout, stderr,
                   assuanVars, sockOut, sockEof, backMode, backData, backCloses,
                   echoed, terminated, fredPc, fredRes, fredRead>>
    /\ UNCHANGED pageantVars

\* BobSockClosed as it would be with the loop left (break) instead of the
\* process ended.
BobSockClosedBreaks ==
    /\ Running("pipette") /\ bobPc = "handle"
    /\ bobRes.kind = "ok" /\ bobRes.data = <<>>
    /\ bobPc' = "broke"
    /\ UNCHANGED <<commonVars, assuanVars, sockVars, terminated, bobRes, bobRead,
                   fredPc, fredRes, fredRead>>
    /\ UNCHANGED pageantVars

\* Lines 53-56: Ok(0): "sock closed" is logged and the process exits with 0.
BobSockClosed ==
    /\ Running("pipette") /\ bobPc = "handle"
    /\ bobRes.kind = "ok" /\ bobRes.data = <<>>
    /\ Eprintln(stdout, <<"sock closed">>)
    /\ Exit(0)
    /\ UNCHANGED <<prog, stdinBuf, stdinEof, errBudget, ioFailed,
                   assuanVars, sockVars, relayVars>>
    /\ UNCHANGED pageantVars

\* Lines 57-59: Ok(len): stdout().write_all(&buf[..len]).unwrap(). A failed
\* write has written some strict prefix and panics the thread.
BobWrite ==
    /\ Running("pipette") /\ bobPc = "handle"
    /\ bobRes.kind = "ok" /\ bobRes.data # <<>>
    /\ \/ /\ stdout' = stdout \o BufSlice(bobRes.data)
          /\ bobPc' = "read"
          /\ UNCHANGED <<stderr, errBudget, ioFailed>>
       \/ /\ errBudget > 0
          /\ errBudget' = errBudget - 1
          /\ ioFailed' = TRUE
          /\ \E w \in PartialWrites(BufSlice(bobRes.data)) :
                PanicHook(stdout \o w, <<>>, <<>>)
          /\ bobPc' = "panicked"
    /\ bobRes' = NoRes
    /\ UNCHANGED <<prog, exited, exitCode, stdinBuf, stdinEof,
                   assuanVars, sockVars, terminated, bobRead,
                   fredPc, fredRes, fredRead>>
    /\ UNCHANGED pageantVars

\* Line 60: Err(e) => eprintln!("{}", e): the error is logged and the loop
\* goes on.
BobReadErr ==
    /\ Running("pipette") /\ bobPc = "handle"
    /\ bobRes.kind = "err"
    /\ Eprintln(stdout, <<"read error">>)
    /\ bobPc' = "read"
    /\ bobRes' = NoRes
    /\ UNCHANGED <<prog, exited, exitCode, stdinBuf, stdinEof, errBudget, ioFailed,
                   assuanVars, sockVars, terminated, bobRead,
                   fredPc, fredRes, fredRead>>
    /\ UNCHANGED pageantVars

----------------------------------------------------------------------------
\* pipette: attach_to_tty, the reverse thread 'fred' (stdin -> socket).

\* Lines 65-69: the flag is loaded, then one blocking read of at most BufLen
\* bytes from standard input.
FredRead ==
    /\ Running("pipette") /\ fredPc = "read"
    /\ IF terminated
       THEN /\ fredPc' = "broke"
            /\ UNCHANGED <<fredRes, fredRead, stdinBuf, errBudget, ioFailed>>
       ELSE \/ \E k \in 1..Min(BufLen, Len(stdinBuf)) :
                 /\ fredRes' = OkRes(Take(stdinBuf, k))
                 /\ fredRead' = fredRead \o Take(stdinBuf, k)
                 /\ stdinBuf' = Drop(stdinBuf, k)
                 /\ fredPc' = "handle"
                 /\ UNCHANGED <<errBudget, ioFailed>>
            \/ /\ stdinBuf = <<>> /\ stdinEof
               /\ fredRes' = OkRes(<<>>)
               /\ fredPc' = "handle"
               /\ UNCHANGED <<fredRead, stdinBuf, errBudget, ioFailed>>
            \/ /\ errBudget > 0
               /\ errBudget' = errBudget - 1
               /\ ioFailed' = TRUE
               /\ fredRes' = ErrRes
               /\ fredPc' = "handle"
               /\ UNCHANGED <<fredRead, stdinBuf>>
    /\ UNCHANGED <<prog, exited, exitCode, stdinEof, stdout, stderr,
                   assuanVars, sockVars, terminated, bobPc, bobRes, bobRead>>
    /\ UNCHANGED pageantVars

\* Lines 70-73: Ok(0): "stdin closed" is logged and the process exits with 0.
FredStdinClosed ==
    /\ Running("pipette") /\ fredPc = "handle"
    /\ fredRes.kind = "ok" /\ fredRes.data = <<>>
    /\ Eprintln(stdout, <<"stdin closed">>)
    /\ Exit(0)
    /\ UNCHANGED <<prog, stdinBuf, stdinEof, errBudget, ioFailed,
                   assuanVars, sockVars, relayVars>>
    /\ UNCHANGED pageantVars

\* Lines 74-76: Ok(len): write.as_ref().write_all(&buf[..len]).unwrap().
FredWrite ==
    /\ Running("pipette") /\ fredPc = "handle"
    /\ fredRes.kind = "ok" /\ fredRes.data # <<>>
    /\ \/ /\ sockOut' = sockOut \o BufSlice(fredRes.data)
          /\ fredPc' = "read"
          /\ UNCHANGED <<stdout, stderr, errBudget, ioFailed>>
       \/ /\ errBudget > 0
          /\ errBudget' = errBudget - 1
          /\ ioFailed' = TRUE
          /\ \E w \in PartialWrites(BufSlice(fredRes.data)) : sockOut' = sockOut \o w
          /\ PanicHook(stdout, <<>>, <<>>)
          /\ fredPc' = "panicked"
    /\ fredRes' = NoRes
    /\ UNCHANGED <<prog, exited, exitCode, stdinBuf, stdinEof,
                   assuanVars, sockIn, sockEof, backMode, backData, backCloses,
                   echoed, terminated, bobPc, bobRes, bobRead, fredRead>>
    /\ UNCHANGED pageantVars

\* Line 77: Err(e) => panic!("{}", e): the thread panics.
FredReadErr ==
    /\ Running("pipette") /\ fredPc = "handle"
    /\ fredRes.kind = "err"
    /\ PanicHook(stdout, <<>>, <<>>)
    /\ fredPc' = "panicked"
    /\ fredRes' = NoRes
    /\ UNCHANGED <<prog, exited, exitCode, stdinBuf, stdinEof, errBudget, ioFailed,
                   assuanVars, sockVars, terminated,
                   bobPc, bobRes, bobRead, fredRead>>
    /\ UNCHANGED pageantVars

----------------------------------------------------------------------------
\* The backend at the other end of the connection (the environment).

\* An echoing backend sends back every relayed byte it has received.
BackendEcho ==
    /\ Running("pipette") /\ Connected /\ backMode = "echo"
    /\ echoed < Len(Relayed)
    /\ sockIn' = sockIn \o Drop(Relayed, echoed)
    /\ echoed' = Len(Relayed)
    /\ UNCHANGED <<commonVars, assuanVars, sockOut, sockEof, backMode,
                   backData, backCloses, relayVars>>
    /\ UNCHANGED pageantVars

\* A source backend sends the bytes it has.
BackendSend ==
    /\ Running("pipette") /\ Connected /\ backMode = "source"
    /\ backData # <<>>
    /\ sockIn' = sockIn \o backData
    /\ backData' = <<>>
    /\ UNCHANGED <<commonVars, assuanVars, sockOut, sockEof, backMode,
                   backCloses, echoed, relayVars>>
    /\ UNCHANGED pageantVars

\* A source backend closes its side when it has sent everything.
BackendClose ==
    /\ Running("pipette") /\ Connected /\ backMode = "source"
    /\ backCloses /\ backData = <<>> /\ ~sockEof
    /\ sockEof' = TRUE
    /\ UNCHANGED <<commonVars, assuanVars, sockOut, sockIn, backMode,
                   backData, backCloses, echoed, relayVars>>
    /\ UNCHANGED pageantVars

----------------------------------------------------------------------------
\* pageant: frames and the region.

\* BigEndian::read_u32 of the first four bytes of b.
BE32(b) == b[1] * 16777216 + b[2] * 65536 + b[3] * 256 + b[4]

\* The four big-endian bytes of n (how a client encodes a length).
BE32Bytes(n) ==
    <<(n \div 16777216) % 256, (n \div 65536) % 256, (n \div 256) % 256, n % 256>>

\* A frame as the client or the agent composes it: the length of the
\* payload, then the payload.
Frame(payload) == BE32Bytes(Len(payload)) \o payload

\* The first n bytes of the region holding the bytes m from offset 0: a
\* fresh section is zero-filled.
RegionSlice(m, n) == [i \in 1..n |-> IF i <= Len(m) THEN m[i] ELSE 0]

\* The region after bytes w were stored at offset 0 over the contents m.
RegionStore(m, w) == w \o Drop(m, Len(w))

\* Chunks as it would be with only the first chunk taken.
ChunksFirstOnly(s) == IF s = <<>> THEN <<>> ELSE <<Take(s, ChunkLen)>>

\* Line 182: rsp.chunks(16): the pieces of 16 bytes, the last one shorter.
Chunks(s) ==
    [i \in 1..((Len(s) + ChunkLen - 1) \div ChunkLen) |->
        SubSeq(s, (i - 1) * ChunkLen + 1, Min(i * ChunkLen, Len(s)))]

\* Lines 182-186: the bytes on standard output when the pieces ss have been
\* written in their order.
RECURSIVE Flatten(_)
Flatten(ss) ==
    IF ss = <<>> THEN <<>>
    ELSE IF Len(ss) = 1 THEN ss[1]
    ELSE LET h == Len(ss) \div 2
         IN  Flatten(SubSeq(ss, 1, h)) \o Flatten(SubSeq(ss, h + 1, Len(ss)))

\* ReadResponse as it would be with the slice ending at rsp_len: the length
\* field is not counted and the last 4 bytes of the frame are left behind.
ReadResponseNoPrefix(m) ==
    LET rsp_len == BE32(RegionSlice(m, 4))
    IN  IF rsp_len > RegionSize
        THEN [panic |-> TRUE, bytes |-> <<>>]
        ELSE [panic |-> FALSE, bytes |-> RegionSlice(m, rsp_len)]

\* ReadResponse as it would be with an unchecked slice of the region: the
\* copy runs to rsp_len + 4 whatever the size of the array.
ReadResponseUnchecked(m) ==
    LET rsp_len == BE32(RegionSlice(m, 4))
    IN  [panic |-> FALSE, bytes |-> RegionSlice(m, rsp_len + 4)]

\* Lines 132-143: the response read from the region holding m: rsp_len is
\* the big-endian value of the first 4 bytes and the slice shm[0..rsp_len+4]
\* is copied; the index panics when it ends past the array's 8192 bytes.
ReadResponse(m) ==
    LET rsp_len == BE32(RegionSlice(m, 4))
    IN  IF rsp_len + 4 > RegionSize
        THEN [panic |-> TRUE, bytes |-> <<>>]
        ELSE [panic |-> FALSE, bytes |-> RegionSlice(m, rsp_len + 4)]

\* DropEvents as it would be with the view declared before the handle: the
\* handle is closed first.
DropEventsHandleFirst(v, h) ==
    (IF h = "open" THEN <<"closed">> ELSE <<>>)
        \o (IF v = "mapped" THEN <<"unmapped">> ELSE <<>>)

\* Lines 22-54 and the scope's end: the locals are dropped in reverse order
\* of declaration, the view (unmapped unless null) before the handle (closed
\* unless invalid). The events this adds.
DropEvents(v, h) ==
    (IF v = "mapped" THEN <<"unmapped">> ELSE <<>>)
        \o (IF h = "open" THEN <<"closed">> ELSE <<>>)

\* Lines 28 and 48: the lines the destructors log, in the order they run.
DropLines(v, h) ==
    (IF v = "mapped" THEN <<"Unmapping">> ELSE <<>>)
        \o (IF h = "open" THEN <<"Closing">> ELSE <<>>)

\* send_to_pageant ends with result r (returning or unwinding): its locals
\* are dropped.
EndCall(r, log) ==
    /\ sendResult' = r
    /\ callLog' = log \o DropEvents(view, handle)
    /\ view' = IF view = "mapped" THEN "unmapped" ELSE view
    /\ handle' = IF handle = "open" THEN "closed" ELSE handle

\* TooLong as it would be with > in place of >=.
TooLongOffByOne(data) == Len(data) > RegionSize

\* Line 57: the size check of the request.
TooLong(data) == Len(data) >= RegionSize

----------------------------------------------------------------------------
\* pageant: main's request loop and send_to_pageant.

\* Lines 154-175: read_exact of the 4-byte length, then take(req_len)
\* .read_to_end of the payload. read_exact fails with UnexpectedEof whenever
\* the input ends before 4 bytes were read, and main returns; read_to_end
\* returns what there was when the input ends early. Any other error panics.
PgReadFrame ==
    /\ Running("pageant") /\ pgPc = "read"
    /\ \/ /\ errBudget > 0
          /\ errBudget' = errBudget - 1
          /\ Exit(101)
          /\ PanicHook(stdout, <<>>, <<>>)
          /\ UNCHANGED <<stdinBuf, pgPc, req, loopLog>>
       \/ /\ Len(stdinBuf) < 4 /\ stdinEof
          /\ stdinBuf' = <<>>
          /\ Exit(0)
          /\ UNCHANGED <<stdout, stderr, errBudget, pgPc, req, loopLog>>
       \/ /\ Len(stdinBuf) >= 4
          /\ LET req_len == BE32(stdinBuf)
             IN  /\ Len(stdinBuf) >= 4 + req_len \/ stdinEof
                 /\ req' = Take(stdinBuf, 4 + req_len)
                 /\ stdinBuf' = Drop(stdinBuf, 4 + req_len)
          /\ Eprintln(stdout, <<"Request length", "Request">>)
          /\ loopLog' = Append(loopLog, [ev |-> "read", data |-> <<>>])
          /\ pgPc' = "check"
          /\ UNCHANGED <<errBudget, exited, exitCode>>
    /\ sendResult' = "none" /\ rsp' = <<>> /\ shm' = <<>>
    /\ handle' = "none" /\ view' = "none" /\ callLog' = <<>>
    /\ UNCHANGED <<prog, stdinEof, ioFailed, pipetteVars, agentWindow>>

\* NoWindow as it would be with the result of FindWindowA never tested.
NoWindowUntested(found) == FALSE

\* Lines 65-67: window_handle.0 == 0, FindWindowA having found no window.
NoWindow(found) == ~found

\* Lines 56-78: the size check, then FindWindowA("Pageant", "Pageant").
PgSendCheck ==
    /\ Running("pageant") /\ pgPc = "check"
    /\ IF TooLong(req)
       THEN /\ EndCall("RequestTooLong", callLog)
            /\ pgPc' = "respond"
            /\ UNCHANGED <<stdout, stderr>>
       ELSE IF NoWindow(agentWindow)
       THEN /\ EndCall("NoPageantWindow", callLog \o <<"lookup">>)
            /\ pgPc' = "respond"
            /\ UNCHANGED <<stdout, stderr>>
       ELSE /\ callLog' = callLog \o <<"lookup">>
            /\ Eprintln(stdout, <<"Found Pagent window", "Map name is">>)
            /\ pgPc' = "create"
            /\ UNCHANGED <<sendResult, view, handle>>
    /\ loopLog' = Append(loopLog, [ev |-> "call", data |-> <<>>])
    /\ UNCHANGED <<prog, exited, exitCode, stdinBuf, stdinEof, errBudget, ioFailed,
                   pipetteVars, req, agentWindow, rsp, shm>>

\* Lines 80-91: CreateFileMappingA(..., 8192, name)?: the handle, or the
\* Windows error returned.
PgCreate ==
    /\ Running("pageant") /\ pgPc = "create"
    /\ \E ok \in BOOLEAN :
          IF ok
          THEN /\ handle' = "open"
               /\ callLog' = callLog \o <<"created">>
               /\ Eprintln(stdout, <<"Created file mapping">>)
               /\ pgPc' = "map"
               /\ UNCHANGED <<sendResult, view>>
          ELSE /\ EndCall("Windows", callLog)
               /\ pgPc' = "respond"
               /\ UNCHANGED <<stdout, stderr>>
    /\ UNCHANGED <<prog, exited, exitCode, stdinBuf, stdinEof, errBudget, ioFailed,
                   pipetteVars, req, agentWindow, rsp, shm, loopLog>>

\* Lines 93-103: MapViewOfFile; its result is wrapped unchecked, a failure
\* leaves a null view.
PgMap ==
    /\ Running("pageant") /\ pgPc = "map"
    /\ \E ok \in BOOLEAN :
          IF ok
          THEN view' = "mapped" /\ callLog' = callLog \o <<"mapped">>
          ELSE view' = "null" /\ callLog' = callLog
    /\ Eprintln(stdout, <<"Created view of file">>)
    /\ pgPc' = "copy"
    /\ UNCHANGED <<prog, exited, exitCode, stdinBuf, stdinEof, errBudget, ioFailed,
                   pipetteVars, req, agentWindow, sendResult, rsp, shm, handle,
                   loopLog>>

\* Lines 104-106: as_slice() and ptr::copy of the request to the start of
\* the view. Through a null view this is undefined behaviour: the store to
\* address 0 faults (0xC0000005) or a checked build aborts (0xC0000409);
\* either way the process dies at once and no destructor runs. The exit
\* codes are written as signed 32-bit numbers.
PgCopy ==
    /\ Running("pageant") /\ pgPc = "copy"
    /\ IF view = "mapped"
       THEN /\ shm' = RegionStore(shm, req)
            /\ callLog' = callLog \o <<"written">>
            /\ pgPc' = "notify"
            /\ UNCHANGED <<exited, exitCode>>
       ELSE /\ \E code \in {-1073741819, -1073740791} : Exit(code)
            /\ UNCHANGED <<shm, callLog, pgPc>>
    /\ UNCHANGED <<prog, stdinBuf, stdinEof, stdout, stderr, errBudget, ioFailed,
                   pipetteVars, req, agentWindow, sendResult, rsp, handle, view,
                   loopLog>>

\* What the agent may leave at the start of the region: a one-byte reply, an
\* empty one, one that fills the region exactly, a length that runs one
\* byte past it and one that runs far past it.
AgentReplies ==
    { Frame(<<79>>), Frame(<<>>), Frame(Fill(RegionSize - 4, 2)),
      BE32Bytes(RegionSize - 3), BE32Bytes(8 * RegionSize) }

\* Lines 108-130: the COPYDATASTRUCT is built and SendMessageA delivers it;
\* the call returns when the agent has handled the message: it has stored
\* its reply in the region and returned non-zero, or it has returned zero
\* and the call ends with SendMessageFailed.
PgNotify ==
    /\ Running("pageant") /\ pgPc = "notify"
    /\ \/ /\ \E reply \in AgentReplies : shm' = RegionStore(shm, reply)
          /\ callLog' = callLog \o <<"signalled">>
          /\ Eprintln(stdout, <<"COPYDATASTRUCT", "SendMessage returned">>)
          /\ pgPc' = "readRsp"
          /\ UNCHANGED <<sendResult, view, handle>>
       \/ /\ EndCall("SendMessageFailed", callLog \o <<"signalled">>)
          /\ Eprintln(stdout, <<"COPYDATASTRUCT", "SendMessage returned">>
                                \o DropLines(view, handle))
          /\ pgPc' = "respond"
          /\ shm' = shm
    /\ UNCHANGED <<prog, exited, exitCode, stdinBuf, stdinEof, errBudget, ioFailed,
                   pipetteVars, req, agentWindow, rsp, loopLog>>

\* Lines 132-146: the response is read from the region and returned. The
\* slice index past the array panics: the locals are dropped while the
\* panic unwinds and the process ends with 101.
PgReadRsp ==
    /\ Running("pageant") /\ pgPc = "readRsp"
    /\ LET r == ReadResponse(shm)
       IN  IF r.panic
           THEN /\ EndCall("panic", callLog)
                /\ PanicHook(stdout, <<"Response length is">>,
                             DropLines(view, handle))
                /\ Exit(101)
                /\ UNCHANGED <<rsp, pgPc, loopLog>>
           ELSE /\ rsp' = r.bytes
                /\ EndCall("Ok", callLog \o <<"read">>)
                /\ Eprintln(stdout, <<"Response length is">>
                                      \o DropLines(view, handle))
                /\ loopLog' = Append(loopLog, [ev |-> "ret", data |-> r.bytes])
                /\ pgPc' = "respond"
                /\ UNCHANGED <<exited, exitCode>>
    /\ UNCHANGED <<prog, stdinBuf, stdinEof, errBudget, ioFailed,
                   pipetteVars, req, agentWindow, shm>>

\* Lines 179-186: .unwrap() of the result, then the response is written to
\* standard output in chunks of 16 bytes, each flushed; a failed write or
\* flush panics, the chunks before it written. The lines logged for the
\* chunks, one for each, are one entry of stderr.
PgRespond ==
    /\ Running("pageant") /\ pgPc = "respond"
    /\ IF sendResult # "Ok"
       THEN /\ Exit(101)
            /\ PanicHook(stdout, <<>>, <<>>)
            /\ UNCHANGED <<errBudget, pgPc, loopLog>>
       ELSE LET chunks == Chunks(rsp)
                written == Flatten(chunks)
            IN  \/ /\ Eprintln(stdout \o written, <<"Response chunks">>)
                   /\ loopLog' = Append(loopLog, [ev |-> "write", data |-> <<>>])
                   /\ pgPc' = "read"
                   /\ UNCHANGED <<exited, exitCode, errBudget>>
                \/ /\ errBudget > 0
                   /\ errBudget' = errBudget - 1
                   /\ \E w \in PartialWrites(written) :
                         PanicHook(stdout \o w, <<"Response chunks">>, <<>>)
                   /\ Exit(101)
                   /\ UNCHANGED <<pgPc, loopLog>>
    /\ UNCHANGED <<prog, stdinBuf, stdinEof, ioFailed, pipetteVars,
                   req, agentWindow, sendResult, rsp, shm, handle, view, callLog>>

----------------------------------------------------------------------------
\* Initial states: the inputs of a run.

\* Client inputs of a relay run.
RelayInputs == SeqsUpTo({65, 66}, MaxIn)

\* What a source backend sends: a prefix of "OK...".
BackendOutputs == {Take(<<79, 75, 79, 75, 79, 75>>, n) : n \in 0..MaxBack}

\* Pieces of a pageant run's input: whole frames, and frames cut short in
\* the length and in the payload.
SmallItems ==
    { Frame(<<>>), Frame(<<65, 66>>), <<0>>, <<0, 0, 0>>, <<0, 0, 0, 2, 65>> }

\* Frames at the limit of a request: 8191 and 8192 bytes in all.
BigItems == { Frame(Fill(RegionSize - 5, 1)), Frame(Fill(RegionSize - 4, 1)) }

RECURSIVE Concats(_, _)
Concats(items, n) ==
    IF n = 0 THEN {<<>>}
    ELSE Concats(items, n - 1)
            \cup {a \o b : a \in Concats(items, n - 1), b \in items}

PageantInputs == Concats(SmallItems, MaxFrames) \cup BigItems

InitCommon ==
    /\ exited = FALSE /\ exitCode = -1
    /\ stdout = <<>> /\ stderr = <<>>
    /\ errBudget = MaxErrs
    /\ ioFailed = FALSE

InitPipetteIdle ==
    /\ rvFile = NoFile /\ mainPc = "idle" /\ newResult = "none"
    /\ port = -1 /\ nonce = <<>> /\ connects = 0
    /\ sockOut = <<>> /\ sockIn = <<>> /\ sockEof = FALSE
    /\ backMode = "source" /\ backData = <<>> /\ backCloses = FALSE
    /\ echoed = 0
    /\ terminated = FALSE
    /\ bobPc = "idle" /\ bobRes = NoRes /\ bobRead = <<>>
    /\ fredPc = "idle" /\ fredRes = NoRes /\ fredRead = <<>>

InitPageantIdle ==
    /\ pgPc = "idle" /\ req = <<>> /\ agentWindow = FALSE
    /\ sendResult = "none" /\ rsp = <<>> /\ shm = <<>>
    /\ handle = "none" /\ view = "none" /\ callLog = <<>>
    /\ loopLog = <<>>

\* pipette starts in main with some rendezvous file; the relay's inputs vary
\* under RelayFile.
InitPipette ==
    /\ prog = "pipette"
    /\ InitCommon
    /\ mainPc = "new" /\ newResult = "none"
    /\ port = -1 /\ nonce = <<>> /\ connects = 0
    /\ sockOut = <<>> /\ sockIn = <<>> /\ sockEof = FALSE /\ echoed = 0
    /\ terminated = FALSE
    /\ bobPc = "idle" /\ bobRes = NoRes /\ bobRead = <<>>
    /\ fredPc = "idle" /\ fredRes = NoRes /\ fredRead = <<>>
    /\ \/ /\ rvFile \in RendezvousFiles
          /\ stdinBuf = <<>> /\ stdinEof = TRUE
          /\ backMode = "source" /\ backData = <<>> /\ backCloses = TRUE
       \/ /\ rvFile = RelayFile
          /\ stdinBuf \in RelayInputs /\ stdinEof \in BOOLEAN
          /\ \/ /\ backMode = "echo" /\ backData = <<>> /\ backCloses = FALSE
             \/ /\ backMode = "source" /\ backData \in BackendOutputs
                /\ backCloses \in BOOLEAN
    /\ InitPageantIdle

\* pageant starts at the top of main's loop.
InitPageant ==
    /\ prog = "pageant"
    /\ InitCommon
    /\ stdinBuf \in PageantInputs /\ stdinEof \in BOOLEAN
    /\ InitPipetteIdle
    /\ pgPc = "read" /\ req = <<>> /\ agentWindow \in BOOLEAN
    /\ sendResult = "none" /\ rsp = <<>> /\ shm = <<>>
    /\ handle = "none" /\ view = "none" /\ callLog = <<>>
    /\ loopLog = <<>>

Init == InitPipette \/ InitPageant

BobStep == BobRead \/ BobSockClosed \/ BobWrite \/ BobReadErr

FredStep == FredRead \/ FredStdinClosed \/ FredWrite \/ FredReadErr

MainStep == AssuanNew \/ AssuanConnect \/ AssuanWriteNonce \/ MainAttach \/ MainJoin

BackendStep == BackendEcho \/ BackendSend \/ BackendClose

PageantStep ==
    PgReadFrame \/ PgSendCheck \/ PgCreate \/ PgMap \/ PgCopy \/ PgNotify
        \/ PgReadRsp \/ PgRespond

Next == MainStep \/ BobStep \/ FredStep \/ BackendStep \/ PageantStep

Spec == Init /\ [][Next]_vars

\* The runs of pipette alone.
PipetteNext == MainStep \/ BobStep \/ FredStep \/ BackendStep

\* The relay's two threads are scheduled fairly: a thread that can take its
\* next step takes it. The backend and the client are not obliged to act.
FairSpec ==
    InitPipette /\ [][PipetteNext]_vars
        /\ WF_vars(BobStep) /\ WF_vars(FredStep)

----------------------------------------------------------------------------
\* Properties of the relay (attach_to_tty).

\* C1: with a backend that echoes every relayed byte, once the client input
\* has closed and the process has ended without an I/O failure, standard
\* output holds exactly the bytes read from standard input, in order.
C1_EchoReproducesInput ==
    (prog = "pipette" /\ backMode = "echo" /\ ~ioFailed
        /\ exited /\ fredRes = OkRes(<<>>))
    => stdout = fredRead

\* C2: in each direction the bytes written so far are a prefix of the bytes
\* read so far; a thread about to read has written all it has read, and a
\* thread holding a chunk (of at most BufLen bytes) has written all but
\* that chunk.
C2_ChunkOrderPreserved ==
    prog = "pipette" =>
        /\ IsPrefix(stdout, bobRead)
        /\ IsPrefix(Relayed, fredRead)
        /\ bobPc = "read" => stdout = bobRead
        /\ fredPc = "read" => Relayed = fredRead
        /\ bobPc = "handle" =>
              bobRead = stdout \o bobRes.data /\ Len(bobRes.data) <= BufLen
        /\ fredPc = "handle" =>
              fredRead = Relayed \o fredRes.data /\ Len(fredRes.data) <= BufLen

\* C2: both directions have written one chunk and hold the next.
C2_Witness ==
    /\ prog = "pipette"
    /\ bobPc = "handle" /\ bobRes.data # <<>> /\ stdout # <<>>
    /\ fredPc = "handle" /\ fredRes.data # <<>> /\ Relayed # <<>>

\* C3: a zero-length read in either direction leads to the end of the
\* process, whatever the other direction does.
C3_ZeroReadTerminates ==
    ((bobPc = "handle" /\ bobRes = OkRes(<<>>))
        \/ (fredPc = "handle" /\ fredRes = OkRes(<<>>))) ~> exited

\* C3: the process has ended on the backend's close while the client input
\* stays open and the reverse thread is blocked in its read.
C3_Witness ==
    /\ prog = "pipette" /\ exited
    /\ bobPc = "handle" /\ bobRes = OkRes(<<>>)
    /\ fredPc = "read" /\ stdinBuf = <<>> /\ ~stdinEof

\* C4: the exit code is 0 on a clean close and non-zero after any error: a
\* failed Assuan::new, a failed exchange, or an I/O failure in the relay.
C4_ExitCodeReflectsErrors ==
    exited =>
        /\ ioFailed => exitCode # 0
        /\ newResult \notin {"none", "Ok"} => exitCode # 0
        /\ sendResult \notin {"none", "Ok"} => exitCode # 0
        /\ (~ioFailed /\ errBudget = MaxErrs
                /\ (bobRes = OkRes(<<>>) \/ fredRes = OkRes(<<>>)))
              => exitCode = 0

\* A step in which a relay thread performs a write.
RelayWriteStep ==
    \/ bobPc = "handle" /\ bobRes.kind = "ok" /\ bobPc' \in {"read", "panicked"}
    \/ fredPc = "handle" /\ fredRes.kind = "ok" /\ fredPc' \in {"read", "panicked"}

\* A step in which a thread whose read has failed goes back to reading.
RelayRetryStep ==
    \/ bobPc = "handle" /\ bobRes.kind = "err" /\ bobPc' = "read"
    \/ fredPc = "handle" /\ fredRes.kind = "err" /\ fredPc' = "read"

\* C5: an I/O error in the relay is fatal where it is detected: the thread
\* whose read failed does not read again, and once a read or write has
\* failed neither direction performs another write.
C5_IoErrorIsFatal ==
    [][(ioFailed => ~RelayWriteStep) /\ ~RelayRetryStep]_vars

----------------------------------------------------------------------------
\* Properties of the shared-memory exchange (send_to_pageant) and of
\* pageant's request loop.

\* The order of a region's events.
RegionOrder ==
    <<"created", "mapped", "written", "signalled", "read", "unmapped", "closed">>

RegionEvents == SelectSeq(callLog, LAMBDA e : e # "lookup")

EventPos(e) == CHOOSE i \in 1..Len(RegionOrder) : RegionOrder[i] = e

\* C6: the events of the region occur in the order created, mapped, request
\* written, agent signalled, response read, unmapped, closed, none twice;
\* and when the call has ended after the region was created and mapped
\* (Ok, SendMessageFailed, or the panic while the response is read) the view
\* has been unmapped and then the handle closed; no call that has ended
\* leaves a view mapped or a handle open.
C6_RegionLifecycle ==
    prog = "pageant" =>
        /\ \A i, j \in 1..Len(RegionEvents) :
              i < j => EventPos(RegionEvents[i]) < EventPos(RegionEvents[j])
        /\ sendResult = "Ok" => RegionEvents = RegionOrder
        /\ sendResult \in {"SendMessageFailed", "panic"} =>
              RegionEvents =
                  <<"created", "mapped", "written", "signalled", "unmapped", "closed">>
        /\ sendResult # "none" => view # "mapped" /\ handle # "open"

\* C6: an exchange has ended with SendMessageFailed after the region was
\* created and mapped.
C6_Witness ==
    /\ prog = "pageant" /\ sendResult = "SendMessageFailed"
    /\ view = "unmapped" /\ handle = "closed"

\* C7: a request of 8192 bytes or more (a payload of 8188 or more) ends the
\* exchange with RequestTooLong before the window is looked up and before
\* any region exists or any notification is sent; a shorter request never
\* yields RequestTooLong.
C7_RequestTooLong ==
    (prog = "pageant" /\ pgPc \notin {"read", "check"}) =>
        /\ Len(req) >= RegionSize =>
              /\ sendResult = "RequestTooLong"
              /\ callLog = <<>> /\ handle = "none" /\ view = "none"
        /\ Len(req) < RegionSize => sendResult # "RequestTooLong"

\* C7: a request whose payload is exactly 8188 bytes was refused.
C7_Witness ==
    /\ prog = "pageant" /\ sendResult = "RequestTooLong"
    /\ Len(req) = RegionSize /\ BE32(req) = 8188

\* The claim's valid rendezvous file: a line holding a decimal unsigned
\* 16-bit number, then 16 bytes of nonce.
DeclaresValidPair(f) ==
    /\ f.exists
    /\ ParseU16(Trim(PortLine(f))).ok
    /\ Len(f.bytes) - LineLen(f.bytes) >= NonceLen

\* C8: for a rendezvous file without a valid (port, nonce) pair Assuan::new
\* fails with PortParse or NonceParse and no connection is attempted; a
\* connection is attempted only for a file with a valid pair.
C8_InvalidFileParseError ==
    (prog = "pipette" /\ mainPc # "new" /\ rvFile.exists) =>
        /\ ~DeclaresValidPair(rvFile) =>
              newResult \in {"PortParse", "NonceParse"} /\ connects = 0
        /\ connects > 0 => DeclaresValidPair(rvFile)

\* The bytes that follow the first line break of the file, 16 at most.
FileNonce(f) ==
    IF \A i \in 1..Len(f.bytes) : f.bytes[i] # 10 THEN <<>>
    ELSE LET n == CHOOSE i \in 1..Len(f.bytes) :
                      f.bytes[i] = 10 /\ \A j \in 1..(i - 1) : f.bytes[j] # 10
         IN  [i \in 1..Min(NonceLen, Len(f.bytes) - n) |-> f.bytes[n + i]]

\* C9: what is written to the connection starts with the file's 16 nonce
\* bytes: after a successful Assuan::new exactly these are its first 16
\* bytes, nothing is relayed before them, and until the relay starts no
\* read of the connection has been made.
C9_NonceFirst ==
    (prog = "pipette" /\ connects > 0) =>
        /\ newResult = "Ok" =>
              Len(sockOut) >= NonceLen /\ Take(sockOut, NonceLen) = FileNonce(rvFile)
        /\ IsPrefix(Take(sockOut, NonceLen), FileNonce(rvFile))
        /\ Len(sockOut) > NonceLen => newResult = "Ok" /\ fredRead # <<>>
        /\ mainPc \in {"new", "connect", "handshake", "unwrap"} =>
              bobPc = "idle" /\ fredPc = "idle" /\ bobRead = <<>>

\* C9: the nonce was sent and client bytes were forwarded after it.
C9_Witness ==
    /\ prog = "pipette" /\ newResult = "Ok"
    /\ Len(sockOut) > NonceLen /\ Relayed = fredRead

\* C10: when the input ends in the read of the length prefix, main ends
\* with exit code 0 only if no byte of the prefix had been read; with 1, 2
\* or 3 bytes read the process ends abnormally.
C10_PrefixEof ==
    [][(prog = "pageant" /\ pgPc = "read" /\ stdinEof /\ ~exited /\ exited'
            /\ errBudget' = errBudget)
        => /\ Len(stdinBuf) = 0 => exitCode' = 0
           /\ Len(stdinBuf) \in 1..3 => exitCode' # 0]_vars

\* C11: every frame passed to the exchange is whole: its length is 4 plus
\* the big-endian value of its own first 4 bytes, an input that ends inside
\* the payload being a fatal error of the read.
C11_FrameWhole ==
    (prog = "pageant" /\ pgPc # "read") => Len(req) = 4 + BE32(req)

\* The event e has occurred in the call.
Occurred(e) == \E i \in 1..Len(callLog) : callLog[i] = e

\* The byte at offset i - 1 of the region holding m.
RegionByte(m, i) == IF i <= Len(m) THEN m[i] ELSE 0

\* C12: the frame a successful exchange returns is the first 4 + L bytes of
\* the region as the agent left it, L the big-endian value of the region's
\* first 4 bytes: 00 00 00 01 4F gives these 5 bytes, whatever the request
\* had left behind them.
C12_ResponseFromRegion ==
    (prog = "pageant" /\ sendResult = "Ok") =>
        LET L == BE32(<<RegionByte(shm, 1), RegionByte(shm, 2),
                        RegionByte(shm, 3), RegionByte(shm, 4)>>)
        IN  /\ Len(rsp) = 4 + L
            /\ IF Len(rsp) <= Len(shm)
               THEN rsp = SubSeq(shm, 1, Len(rsp))
               ELSE rsp = shm \o Fill(Len(rsp) - Len(shm), 0)
            /\ Take(shm, 5) = <<0, 0, 0, 1, 79>> => rsp = <<0, 0, 0, 1, 79>>

\* C12: the reply 00 00 00 01 4F was returned for a 6-byte request whose
\* last byte is still in the region behind it.
C12_Witness ==
    /\ prog = "pageant" /\ sendResult = "Ok"
    /\ req = <<0, 0, 0, 2, 65, 66>>
    /\ shm = <<0, 0, 0, 1, 79, 66>>
    /\ rsp = <<0, 0, 0, 1, 79>>

\* C13: the response read never reaches offset 8192 of the region: what it
\* copied is at most 8192 bytes long, and a length field with 4 + L > 8192
\* ends the read with nothing copied.
C13_ReadWithinRegion ==
    prog = "pageant" =>
        /\ Len(rsp) <= RegionSize
        /\ (Len(shm) >= 4 /\ 4 + BE32(shm) > RegionSize
                /\ Occurred("signalled") /\ pgPc # "readRsp")
            => rsp = <<>> /\ sendResult \in {"panic", "SendMessageFailed"}

\* C13: the agent left a length that runs past the region and the read
\* of the response ended in a panic.
C13_Witness ==
    /\ prog = "pageant" /\ sendResult = "panic" /\ exited
    /\ 4 + BE32(shm) > RegionSize /\ rsp = <<>>

\* C14: once a direction has detected the end of its stream the shared
\* flag is set, and it is never reset.
C14_FlagSetOnEof ==
    /\ (prog = "pipette" /\ exited
          /\ \/ bobPc = "handle" /\ bobRes = OkRes(<<>>)
             \/ fredPc = "handle" /\ fredRes = OkRes(<<>>))
        => terminated
    /\ (prog = "pipette" /\ mainPc = "new") => ~terminated

\* C15: with no agent window the call fails with NoPageantWindow, no region
\* created and no notification sent; when the notification returns zero it
\* fails with SendMessageFailed and no response is read or returned.
C15_NoWindowOrSendFailed ==
    prog = "pageant" =>
        /\ sendResult = "NoPageantWindow" =>
              /\ ~agentWindow /\ callLog = <<"lookup">>
              /\ handle = "none" /\ view = "none" /\ rsp = <<>>
        /\ (~agentWindow /\ Len(req) < RegionSize /\ pgPc \notin {"read", "check"})
            => sendResult = "NoPageantWindow"
        /\ sendResult = "SendMessageFailed" =>
              /\ ~Occurred("read") /\ rsp = <<>>
              /\ Occurred("signalled")
        /\ (pgPc = "respond" /\ Occurred("signalled")
                /\ ~Occurred("read"))
            => sendResult = "SendMessageFailed"

\* C15: a request of valid size met no agent window, and the error ended
\* the program.
C15_Witness ==
    /\ prog = "pageant" /\ sendResult = "NoPageantWindow"
    /\ Len(req) \in 4..(RegionSize - 1) /\ exited /\ exitCode = 101

\* The bytes of the events ev of main's loop, in their order.
RECURSIVE LoopBytes(_, _)
LoopBytes(log, ev) ==
    IF log = <<>> THEN <<>>
    ELSE (IF Head(log).ev = ev THEN Head(log).data ELSE <<>>)
            \o LoopBytes(Tail(log), ev)

\* C16: standard output carries relayed protocol bytes only: in pipette a
\* prefix of what was read from the connection, in pageant of the responses
\* returned; the notices of a closed stream are on standard error.
C16_StdoutProtocolOnly ==
    /\ prog = "pipette" =>
          /\ IsPrefix(stdout, bobRead)
          /\ (exited /\ exitCode = 0) =>
                stderr[Len(stderr)] \in {"sock closed", "stdin closed"}
    /\ prog = "pageant" =>
          /\ IsPrefix(stdout, LoopBytes(loopLog, "ret"))
          /\ loopLog # <<>> => Len(stderr) >= 2

\* C16: the backend's bytes were written to standard output, the notice
\* of its closing to standard error.
C16_Witness ==
    /\ prog = "pipette" /\ exited /\ exitCode = 0
    /\ stdout # <<>> /\ stdout = bobRead
    /\ stderr[Len(stderr)] = "sock closed"

\* What one turn of main's loop does, in order.
LoopOrder == <<"read", "call", "ret", "write">>

\* C17: the loop is sequential: each frame read has its one exchange, whose
\* whole response is written before the next frame is read; a region is
\* live only inside the exchange; the responses are on standard output in
\* the order of their requests.
C17_LoopSequential ==
    prog = "pageant" =>
        LET n == Len(loopLog)
            last == IF n = 0 THEN "write" ELSE loopLog[n].ev
            returned == LoopBytes(loopLog, "ret")
        IN  /\ \A i \in 1..n : loopLog[i].ev = LoopOrder[((i - 1) % 4) + 1]
            /\ pgPc = "read" => last = "write"
            /\ (handle = "open" /\ ~exited) => last = "call"
            /\ last = "write" => stdout = returned
            /\ last = "ret" =>
                  /\ IsPrefix(stdout, returned)
                  /\ returned = Take(stdout, Len(returned) - Len(rsp)) \o rsp
            /\ last \in {"read", "call"} => stdout = returned

\* C17: two requests were served one after the other.
C17_Witness ==
    /\ prog = "pageant" /\ pgPc = "read" /\ Len(loopLog) = 8
    /\ stdout = loopLog[3].data \o loopLog[7].data
    /\ loopLog[3].data # loopLog[7].data

\* C18: the request is written and the agent notified only while the region
\* is mapped: when the mapping of a created region fails the call ends in
\* an error, nothing written and no notification sent, the handle closed.
C18_MapFailureIsError ==
    prog = "pageant" =>
        /\ (Occurred("written") \/ Occurred("signalled")) => Occurred("mapped")
        /\ (view = "null" /\ (exited \/ pgPc # "copy")) =>
              /\ sendResult \notin {"none", "Ok"}
              /\ handle = "closed"
              /\ ~Occurred("written") /\ ~Occurred("signalled")

\* C19: the nonce is checked before the port: a file whose port line is
\* not a valid 16-bit decimal and which has fewer than 16 nonce bytes gives
\* NonceParse, and PortParse is returned only when 16 nonce bytes were read.
C19_NonceCheckedFirst ==
    (prog = "pipette" /\ mainPc # "new" /\ rvFile.exists) =>
        /\ (~ParseU16(Trim(PortLine(rvFile))).ok
                /\ Len(FileNonce(rvFile)) < NonceLen)
            => newResult = "NonceParse"
        /\ newResult = "PortParse" => Len(FileNonce(rvFile)) = NonceLen

====
